---- MODULE Spec2Model ----
(***************************************************************************)
(* zula-core: the shell state (src/src/lib.rs) and the plugin hook         *)
(* (src/src/plug.rs), as a state machine.                                  *)
(*                                                                         *)
(* Strings are sequences of code points, OS paths are sequences of bytes;  *)
(* the two differ exactly where to_string_lossy replaces an invalid byte.  *)
(* The operating system (directories, executables, loadable modules) is    *)
(* the environment: a small fixed file system plus nondeterministic        *)
(* outcomes where the code handles an OS error.                            *)
(***************************************************************************)
EXTENDS Integers, Sequences, FiniteSets, TLC

\* ---------------------------------------------------------------- bounds
MaxHooks == 2      \* hooks load_plugin ever registers
MaxDepth == 1      \* nested plugin calls in flight
MaxHist  == 1      \* lines pushed on the history

\* ------------------------------------------------------- strings and paths
REPLACEMENT == 65533                   \* U+FFFD
RESET == <<27, 91, 48, 109>>           \* "\x1b[0m"

Root    == <<47>>                      \* "/"
Tmp     == <<47, 116, 109, 112>>       \* "/tmp"
RawDir  == <<47, 255>>                 \* a directory whose name is not UTF-8
Lnk     == <<47, 108, 110, 107>>       \* "/lnk", a symbolic link to RawDir
Nx      == <<47, 110, 120>>            \* "/nx", does not exist
DotDot  == <<46, 46>>                  \* ".."
NoDir   == <<>>                        \* "no such directory"

Dirs == {Root, Tmp, RawDir}

\* String::from_utf8_lossy on a path: a byte that is not valid UTF-8
\* becomes U+FFFD (bytes below 128 are ASCII and are kept).
to_string_lossy(bytes) ==
    [i \in DOMAIN bytes |-> IF bytes[i] < 128 THEN bytes[i] ELSE REPLACEMENT]

\* The &str arguments callers pass as a path.
PathArgs == {Root, Tmp, Lnk, Nx, DotDot}

\* env::set_current_dir: the directory the OS ends up in, or NoDir.
set_current_dir(cur, path) ==
    CASE path = Root   -> Root
      [] path = Tmp    -> Tmp
      [] path = Lnk    -> RawDir
      [] path = DotDot -> Root
      [] OTHER         -> NoDir

\* env::current_dir: the canonical directory, or an OS error (gc = FALSE).
current_dir(os, gc) == IF gc THEN os ELSE NoDir

\* ---------------------------------------------------------------- modules
Paths == {"a.so", "c.so", "nosym.so", "nofile.so"}
Names == {"p", "q"}
Cmds  == {"cd", "ls", "nope"}
Executables == {"ls"}                  \* what the OS finds on PATH
ArgLists == {<<>>, <<Nx>>, <<Lnk>>, <<Tmp, Nx>>}

\* What the dynamic loader finds at a path.
ModuleKind(path) ==
    CASE path = "nofile.so" -> "nofile"
      [] path = "nosym.so"  -> "nosym"
      [] OTHER              -> "plugin"

\* Plugin::name of the instance the module's init produces.
ModuleName(path) == IF path = "c.so" THEN "q" ELSE "p"

VARIABLES
    status,     \* "up", "down" (ShellState dropped) or "crashed"
    cwd,        \* ShellState.cwd
    osCwd,      \* the process's working directory
    header,     \* ShellState.header, by name
    history,    \* ShellState.history
    plugins,    \* Config.plugins: name -> hook id
    hooks,      \* the PluginHooks built so far: [path, name, obj, hook, via]
    mapped,     \* open handles per module path (dlopen count)
    running,    \* hooks whose Plugin::call is in flight (call stack)
    dropq,      \* hooks being destroyed, head first
    last        \* the operation that just returned

vars == <<status, cwd, osCwd, header, history, plugins, hooks, mapped,
          running, dropq, last>>

NoHook == 0

NoOp == [op |-> "new", res |-> "Ok", cmd |-> "", args |-> <<>>, out |-> <<>>,
         names |-> <<>>, payload |-> "", spawned |-> <<>>, inits |-> 0,
         hook |-> NoHook]

\* ShellState::new
Init ==
    /\ status = "up"
    /\ osCwd \in Dirs
    /\ cwd = to_string_lossy(osCwd)
    /\ header = "default"
    /\ history = <<>>
    /\ plugins = [n \in Names |-> NoHook]
    /\ hooks = <<>>
    /\ mapped = [p \in Paths |-> 0]
    /\ running = <<>>
    /\ dropq = <<>>
    /\ last = NoOp

\* An API operation can start: the shell is up and no teardown is pending.
Ready == status = "up" /\ dropq = <<>>

\* ------------------------------------------------------ working directory
get_cwd == cwd

\* set_cwd assigning the tracked value before asking the OS.
set_cwd_eager(path, gc) ==
    LET target == set_current_dir(osCwd, path) IN
    IF target = NoDir
    THEN [res |-> "InvalidDir", cwd |-> path, osCwd |-> osCwd]
    ELSE IF current_dir(target, gc) = NoDir
         THEN [res |-> "Io", cwd |-> path, osCwd |-> target]
         ELSE [res |-> "Ok", cwd |-> to_string_lossy(current_dir(target, gc)),
               osCwd |-> target]

\* set_cwd storing its argument instead of re-reading the OS directory.
set_cwd_verbatim(path, gc) ==
    LET target == set_current_dir(osCwd, path) IN
    IF target = NoDir
    THEN [res |-> "InvalidDir", cwd |-> cwd, osCwd |-> osCwd]
    ELSE IF current_dir(target, gc) = NoDir
         THEN [res |-> "Io", cwd |-> cwd, osCwd |-> target]
         ELSE [res |-> "Ok", cwd |-> path, osCwd |-> target]

\* ShellState::set_cwd; gc is whether env::current_dir succeeds.
set_cwd(path, gc) ==
    LET target == set_current_dir(osCwd, path) IN
    IF target = NoDir
    THEN [res |-> "InvalidDir", cwd |-> cwd, osCwd |-> osCwd]
    ELSE IF current_dir(target, gc) = NoDir
         THEN [res |-> "Io", cwd |-> cwd, osCwd |-> target]
         ELSE [res |-> "Ok", cwd |-> to_string_lossy(current_dir(target, gc)),
               osCwd |-> target]

\* The answers of env::current_dir that can matter to set_cwd(path).
CwdEnvs(path) ==
    IF set_current_dir(osCwd, path) = NoDir THEN {TRUE} ELSE BOOLEAN

CallSetCwd ==
    \E path \in PathArgs :
      \E gc \in CwdEnvs(path) :
        LET r == set_cwd(path, gc) IN
        /\ Ready
        /\ cwd' = r.cwd
        /\ osCwd' = r.osCwd
        /\ last' = [NoOp EXCEPT !.op = "set_cwd", !.res = r.res,
                                !.args = <<path>>]
        /\ UNCHANGED <<status, header, history, plugins, hooks, mapped,
                       running, dropq>>

\* ----------------------------------------------------------------- header
HeaderIds == {"default", "reset", "partial"}

\* The function stored in ShellState.header, applied to the state.
\* "default" is the closure ShellState::new installs; the others are
\* functions a caller or plugin assigns to the public field.
HeaderFn(id) ==
    CASE id = "default" ->
           <<27, 91, 51, 56, 59, 53, 59, 57, 51, 109, 122, 117, 108, 97,
             27, 91, 51, 56, 59, 53, 59, 53, 109, 32, 64, 32,
             27, 91, 51, 56, 59, 53, 59, 57, 51, 109>>
           \o get_cwd \o <<32, 27, 91, 48, 109, 45, 62, 32>>
      [] id = "reset"   -> <<36>> \o RESET
      [] id = "partial" -> <<36, 27, 91, 48>>

\* get_header appending the reset only when the header lacks one.
get_header_once ==
    LET head == HeaderFn(header) IN
    IF Len(head) >= Len(RESET)
       /\ SubSeq(head, Len(head) - Len(RESET) + 1, Len(head)) = RESET
    THEN head
    ELSE head \o RESET

\* ShellState::get_header
get_header == HeaderFn(header) \o RESET

CallGetHeader ==
    /\ Ready
    /\ last' = [NoOp EXCEPT !.op = "get_header", !.out = get_header]
    /\ UNCHANGED <<status, cwd, osCwd, header, history, plugins, hooks,
                   mapped, running, dropq>>

\* Assignment to the public field ShellState.header.
SetHeader ==
    \E id \in HeaderIds :
        /\ Ready
        /\ id # header
        /\ header' = id
        /\ last' = [NoOp EXCEPT !.op = "set_header"]
        /\ UNCHANGED <<status, cwd, osCwd, history, plugins, hooks, mapped,
                       running, dropq>>

\* A push on the public field ShellState.history.
PushHistory ==
    /\ Ready
    /\ Len(history) < MaxHist
    /\ history' = Append(history, "line")
    /\ last' = [NoOp EXCEPT !.op = "history_push"]
    /\ UNCHANGED <<status, cwd, osCwd, header, plugins, hooks, mapped,
                   running, dropq>>

\* ------------------------------------------------------------------- exec
\* Command::spawn: the executable is missing (ErrorKind::NotFound), the OS
\* refuses for another reason (so = FALSE), or a child is running.
spawn(cmd, so) ==
    IF cmd \notin Executables THEN "notfound"
    ELSE IF so THEN "ok" ELSE "error"

\* exec treating a bare "cd" as a change to the root directory.
exec_home(cmd, args, gc, so, wt) ==
    IF cmd = "cd"
    THEN LET r == set_cwd(IF Len(args) >= 1 THEN args[1] ELSE Root, gc) IN
         [res |-> r.res, cwd |-> r.cwd, osCwd |-> r.osCwd,
          payload |-> "", spawned |-> <<>>]
    ELSE [res |-> "Io", cwd |-> cwd, osCwd |-> osCwd,
          payload |-> "", spawned |-> <<>>]

\* exec taking the last argument of "cd" instead of the first.
exec_lastarg(cmd, args, gc, so, wt) ==
    IF cmd = "cd"
    THEN IF Len(args) >= 1
         THEN LET r == set_cwd(args[Len(args)], gc) IN
              [res |-> r.res, cwd |-> r.cwd, osCwd |-> r.osCwd,
               payload |-> "", spawned |-> <<>>]
         ELSE [res |-> "CommandEmpty", cwd |-> cwd, osCwd |-> osCwd,
               payload |-> "", spawned |-> <<>>]
    ELSE [res |-> "Io", cwd |-> cwd, osCwd |-> osCwd,
          payload |-> "", spawned |-> <<>>]

\* exec reporting every spawn failure as the wrapped OS error.
exec_allio(cmd, args, gc, so, wt) ==
    IF cmd = "cd"
    THEN [res |-> "CommandEmpty", cwd |-> cwd, osCwd |-> osCwd,
          payload |-> "", spawned |-> <<>>]
    ELSE IF spawn(cmd, so) = "ok"
         THEN [res |-> IF wt THEN "Ok" ELSE "Io",
               cwd |-> cwd, osCwd |-> osCwd, payload |-> "",
               spawned |-> <<[cmd |-> cmd, args |-> args, waits |-> 1]>>]
         ELSE [res |-> "Io", cwd |-> cwd, osCwd |-> osCwd,
               payload |-> "", spawned |-> <<>>]

\* ShellState::exec; gc, so and wt are what the OS answers to
\* env::current_dir, Command::spawn and Child::wait.
exec(cmd, args, gc, so, wt) ==
    IF cmd = "cd"
    THEN IF Len(args) >= 1
         THEN LET r == set_cwd(args[1], gc) IN
              [res |-> r.res, cwd |-> r.cwd, osCwd |-> r.osCwd,
               payload |-> "", spawned |-> <<>>]
         ELSE [res |-> "CommandEmpty", cwd |-> cwd, osCwd |-> osCwd,
               payload |-> "", spawned |-> <<>>]
    ELSE CASE spawn(cmd, so) = "notfound" ->
                [res |-> "InvalidCmd", cwd |-> cwd, osCwd |-> osCwd,
                 payload |-> cmd, spawned |-> <<>>]
           [] spawn(cmd, so) = "error" ->
                [res |-> "Io", cwd |-> cwd, osCwd |-> osCwd,
                 payload |-> "", spawned |-> <<>>]
           [] spawn(cmd, so) = "ok" ->
                [res |-> IF wt THEN "Ok" ELSE "Io",
                 cwd |-> cwd, osCwd |-> osCwd, payload |-> "",
                 spawned |-> <<[cmd |-> cmd, args |-> args, waits |-> 1]>>]

\* The OS answers that can matter to a call of exec(cmd, args).
ExecEnvs(cmd, args) ==
    IF cmd = "cd"
    THEN {<<gc, TRUE, TRUE>> :
            gc \in IF args = <<>> THEN {TRUE} ELSE CwdEnvs(args[1])}
    ELSE IF cmd \notin Executables
         THEN {<<TRUE, TRUE, TRUE>>}
         ELSE {<<TRUE, TRUE, TRUE>>, <<TRUE, TRUE, FALSE>>,
               <<TRUE, FALSE, TRUE>>}

\* The argument lists tried with a command: every one for "cd", an empty
\* and a longer one for the commands that are spawned.
ExecArgs(cmd) == IF cmd = "cd" THEN ArgLists ELSE {<<>>, <<Tmp, Nx>>}

CallExec ==
    \E cmd \in Cmds :
     \E args \in ExecArgs(cmd) :
      \E env \in ExecEnvs(cmd, args) :
        LET r == exec(cmd, args, env[1], env[2], env[3]) IN
        /\ Ready
        /\ cwd' = r.cwd
        /\ osCwd' = r.osCwd
        /\ last' = [NoOp EXCEPT !.op = "exec", !.res = r.res, !.cmd = cmd,
                                !.args = args, !.payload = r.payload,
                                !.spawned = r.spawned]
        /\ UNCHANGED <<status, header, history, plugins, hooks, mapped,
                       running, dropq>>

\* ---------------------------------------------------------------- plugins
\* The order without the Drop impl: the fields in declaration order.
DropSteps_DeclOrder == <<"hook", "obj">>

\* The order in which a PluginHook's resources are released: Drop::drop
\* releases obj, then the fields drop in declaration order (hook first;
\* obj is ManuallyDrop and path holds no resource).
DropSteps == <<"obj", "hook">>

\* PluginHook::new keeping the library open when "init" is not found.
PluginHook_new_leak(path) ==
    CASE ModuleKind(path) = "nofile" ->
           [ok |-> FALSE, opened |-> 0, closed |-> 0, inits |-> 0]
      [] ModuleKind(path) = "nosym" ->
           [ok |-> FALSE, opened |-> 1, closed |-> 0, inits |-> 0]
      [] ModuleKind(path) = "plugin" ->
           [ok |-> TRUE, opened |-> 1, closed |-> 0, inits |-> 1]

\* PluginHook::new: Library::new(path)?, then get(b"init")?(), counting
\* the handles opened and closed and the calls of the entry symbol.
PluginHook_new(path) ==
    CASE ModuleKind(path) = "nofile" ->
           [ok |-> FALSE, opened |-> 0, closed |-> 0, inits |-> 0]
      [] ModuleKind(path) = "nosym" ->
           [ok |-> FALSE, opened |-> 1, closed |-> 1, inits |-> 0]
      [] ModuleKind(path) = "plugin" ->
           [ok |-> TRUE, opened |-> 1, closed |-> 0, inits |-> 1]

\* The PluginHook value a successful PluginHook::new returns.
NewHook(path, via) ==
    [path |-> path, name |-> ModuleName(path), obj |-> "live",
     hook |-> "open", via |-> via]

\* An insertion that keeps the entry already present (entry().or_insert).
insert_keep(map, key, value) ==
    IF map[key] = NoHook THEN [map EXCEPT ![key] = value] ELSE map

\* HashMap::insert
insert(map, key, value) == [map EXCEPT ![key] = value]

Registered == {plugins[n] : n \in Names} \ {NoHook}

\* ShellState::plugin_lookup
plugin_lookup(name) ==
    IF plugins[name] # NoHook
    THEN [res |-> "Ok", hook |-> plugins[name]]
    ELSE [res |-> "InvalidPlugin", hook |-> NoHook]

\* ShellState::plugin_names: the keys of the map
plugin_names == {n \in Names : plugins[n] # NoHook}

\* All orders in which the elements of a set can be enumerated.
Orders(S) ==
    {f \in [1..Cardinality(S) -> S] : \A i, j \in DOMAIN f : i # j => f[i] # f[j]}

\* ShellState::load_plugin
CallLoadPlugin ==
    \E path \in Paths :
        LET r    == PluginHook_new(path)
            id   == Len(hooks) + 1
            name == ModuleName(path)
            map  == insert(plugins, name, id)
            \* the hook the insertion displaces is dropped at once
            out  == {plugins[name], id} \ ({map[n] : n \in Names} \cup {NoHook})
        IN
        /\ Ready
        /\ r.ok => Len(hooks) < MaxHooks
        /\ IF r.ok
           THEN /\ hooks' = Append(hooks, NewHook(path, "load"))
                /\ plugins' = map
                /\ dropq' \in Orders(out)
           ELSE UNCHANGED <<hooks, plugins, dropq>>
        /\ mapped' = [mapped EXCEPT ![path] = @ + r.opened - r.closed]
        /\ last' = [NoOp EXCEPT !.op = "load_plugin", !.cmd = path,
                                !.res = IF r.ok THEN "Ok" ELSE "LibErr",
                                !.inits = r.inits]
        /\ UNCHANGED <<status, cwd, osCwd, header, history, running>>

\* A PluginHook built outside the registry and dropped at the end of its
\* scope (plug.rs, test drop).
HookScope ==
    \E path \in Paths :
        /\ Ready
        /\ PluginHook_new(path).ok
        /\ hooks' = Append(hooks, NewHook(path, "scope"))
        /\ mapped' = [mapped EXCEPT ![path] = @ + 1]
        /\ dropq' = <<Len(hooks) + 1>>
        /\ last' = [NoOp EXCEPT !.op = "hook_scope", !.cmd = path,
                                !.inits = PluginHook_new(path).inits]
        /\ UNCHANGED <<status, cwd, osCwd, header, history, plugins, running>>

\* One step of the destruction of the hook at the head of dropq.
Teardown ==
    /\ status # "crashed"
    /\ dropq # <<>>
    /\ LET h    == Head(dropq)
           done == (IF hooks[h].obj = "dropped" THEN 1 ELSE 0)
                   + (IF hooks[h].hook = "closed" THEN 1 ELSE 0)
           step == DropSteps[done + 1]
           after == IF step = "obj"
                    THEN [hooks EXCEPT ![h].obj = "dropped"]
                    ELSE [hooks EXCEPT ![h].hook = "closed"]
       IN
       /\ mapped' = IF step = "hook"
                    THEN [mapped EXCEPT ![hooks[h].path] = @ - 1]
                    ELSE mapped
       /\ IF done + 1 < Len(DropSteps)
          THEN hooks' = after /\ dropq' = dropq
          ELSE /\ dropq' = Tail(dropq)
               \* a scoped hook is gone with its scope; a hook of the
               \* registry may still be referred to by a running call
               /\ hooks' = IF hooks[h].via = "scope"
                            THEN SubSeq(after, 1, Len(after) - 1)
                            ELSE after
    /\ UNCHANGED <<status, cwd, osCwd, header, history, plugins, running, last>>

CallPluginLookup ==
    \E name \in Names :
        /\ Ready
        /\ last' = [NoOp EXCEPT !.op = "plugin_lookup", !.cmd = name,
                                !.res = plugin_lookup(name).res,
                                !.hook = plugin_lookup(name).hook]
        /\ UNCHANGED <<status, cwd, osCwd, header, history, plugins, hooks,
                       mapped, running, dropq>>

CallPluginNames ==
    \E order \in Orders(plugin_names) :
        /\ Ready
        /\ last' = [NoOp EXCEPT !.op = "plugin_names", !.names = order]
        /\ UNCHANGED <<status, cwd, osCwd, header, history, plugins, hooks,
                       mapped, running, dropq>>

\* plugin_lookup(name)?.call(state): the hook's Plugin::call starts.  Until
\* it returns, the operations of the shell are those the plugin performs
\* through the *mut ShellState it was given.
PluginCall ==
    \E name \in Names :
        /\ Ready
        /\ Len(running) < MaxDepth
        /\ plugin_lookup(name).res = "Ok"
        /\ running' = Append(running, plugin_lookup(name).hook)
        /\ last' = [NoOp EXCEPT !.op = "call", !.cmd = name]
        /\ UNCHANGED <<status, cwd, osCwd, header, history, plugins, hooks,
                       mapped, dropq>>

Released(h) == hooks[h].obj = "dropped" \/ hooks[h].hook = "closed"

\* Plugin::call returns Ok(()) or the plugin's own error.
PluginReturn ==
    \E res \in {"Ok", "Opaque"} :
        /\ Ready
        /\ running # <<>>
        /\ running' = SubSeq(running, 1, Len(running) - 1)
        /\ last' = [NoOp EXCEPT !.op = "return", !.res = res]
        /\ UNCHANGED <<status, cwd, osCwd, header, history, plugins, hooks,
                       mapped, dropq>>

\* Code of a released hook is executing: besides carrying on, the process
\* may fault.
Crash ==
    /\ Ready
    /\ running # <<>>
    /\ Released(running[Len(running)])
    /\ status' = "crashed"
    /\ last' = [NoOp EXCEPT !.op = "crash"]
    /\ UNCHANGED <<cwd, osCwd, header, history, plugins, hooks, mapped,
                   running, dropq>>

\* The ShellState is dropped: the registry drops every hook it owns.
Shutdown ==
    /\ Ready
    /\ running = <<>>
    /\ status' = "down"
    /\ plugins' = [n \in Names |-> NoHook]
    /\ dropq' \in Orders(Registered)
    /\ last' = [NoOp EXCEPT !.op = "shutdown"]
    /\ UNCHANGED <<cwd, osCwd, header, history, hooks, mapped, running>>

Next ==
    \/ CallSetCwd
    \/ CallGetHeader
    \/ SetHeader
    \/ PushHistory
    \/ CallExec
    \/ CallLoadPlugin
    \/ HookScope
    \/ Teardown
    \/ CallPluginLookup
    \/ CallPluginNames
    \/ PluginCall
    \/ PluginReturn
    \/ Crash
    \/ Shutdown

Spec == Init /\ [][Next]_vars

\* =================================================================== claims
\* The transition is the API operation op, started from a state where an
\* operation can start.
Did(op) == Ready /\ last'.op = op

EndsWith(str, suffix) ==
    /\ Len(str) >= Len(suffix)
    /\ SubSeq(str, Len(str) - Len(suffix) + 1, Len(str)) = suffix

\* How many terminal-reset sequences a string ends with.
RECURSIVE TrailingResets(_)
TrailingResets(str) ==
    IF EndsWith(str, RESET)
    THEN 1 + TrailingResets(SubSeq(str, 1, Len(str) - Len(RESET)))
    ELSE 0

\* The hooks load_plugin registered under a name, oldest first by id.
LoadedAs(name) ==
    {h \in DOMAIN hooks : hooks[h].via = "load" /\ hooks[h].name = name}

MostRecent(name) == CHOOSE h \in LoadedAs(name) : \A g \in LoadedAs(name) : g <= h

\* Every open module handle belongs to a hook that is registered or is
\* being destroyed, and the OS maps exactly those handles.
MappedOwned ==
    /\ \A p \in Paths :
         mapped[p] = Cardinality({h \in DOMAIN hooks :
                                    hooks[h].path = p /\ hooks[h].hook = "open"})
    /\ \A h \in DOMAIN hooks :
         hooks[h].hook = "open" =>
             h \in Registered \/ \E i \in DOMAIN dropq : dropq[i] = h

\* C1: in no reachable state is a hook's module handle released while its
\* plugin instance is still live, whatever destroys the hook.
C1_InstanceBeforeModule ==
    \A h \in DOMAIN hooks : hooks[h].hook = "closed" => hooks[h].obj = "dropped"

\* A hook displaced by a later load is fully released and a hook of the
\* dropped shell has lost its instance but not yet its module.
C1_Witness ==
    /\ status = "down"
    /\ \E h \in DOMAIN hooks : hooks[h].obj = "dropped" /\ hooks[h].hook = "open"
    /\ \E h \in DOMAIN hooks : hooks[h].obj = "dropped" /\ hooks[h].hook = "closed"

\* C2: no Plugin::call is running or started on a hook whose instance or
\* module has been released.
C2_NoCallOnReleasedHook ==
    \A i \in DOMAIN running : ~Released(running[i])

\* C3 as stated: whenever set_cwd fails the error is InvalidDir and the
\* tracked directory is what it was before the call.
C3_FailureIsInvalidDir ==
    [][(Did("set_cwd") /\ last'.res # "Ok")
          => (last'.res = "InvalidDir" /\ cwd' = cwd)]_vars

\* C3 amended: whenever set_cwd fails the tracked directory is unchanged;
\* the error is InvalidDir when the OS refuses the change of directory and
\* the wrapped OS error when the change succeeded but the current directory
\* could not be read back.
C3_FailureKeepsCwd ==
    [][(Did("set_cwd") /\ last'.res # "Ok")
          => /\ cwd' = cwd
             /\ last'.res = IF set_current_dir(osCwd, last'.args[1]) = NoDir
                            THEN "InvalidDir" ELSE "Io"
             /\ last'.res = "InvalidDir" => osCwd' = osCwd]_vars

C3_Witness ==
    /\ last.op = "set_cwd"
    /\ last.res = "Io"
    /\ cwd = Root
    /\ osCwd = Tmp

\* C4 as stated: set_cwd succeeds on every directory that exists and is
\* accessible, and after a successful set_cwd or exec("cd", ..) the tracked
\* directory equals the directory the OS reports.
C4_TrackedEqualsOs ==
    [][/\ (Did("set_cwd") /\ set_current_dir(osCwd, last'.args[1]) # NoDir)
            => last'.res = "Ok"
       /\ ((Did("set_cwd") \/ (Did("exec") /\ last'.cmd = "cd"))
             /\ last'.res = "Ok")
            => cwd' = osCwd']_vars

\* C4 amended: on a directory that exists and is accessible set_cwd never
\* fails with InvalidDir (it succeeds unless the OS cannot report the current
\* directory, which is the wrapped OS error), and after a successful set_cwd
\* or exec("cd", ..) the tracked directory is the lossy UTF-8 rendering of
\* the directory the OS reports, equal to it when that path is valid UTF-8.
C4_TrackedIsLossyOs ==
    [][/\ (Did("set_cwd") /\ set_current_dir(osCwd, last'.args[1]) # NoDir)
            => last'.res \in {"Ok", "Io"}
       /\ ((Did("set_cwd") \/ (Did("exec") /\ last'.cmd = "cd"))
             /\ last'.res = "Ok")
            => /\ osCwd' = set_current_dir(osCwd, last'.args[1])
               /\ cwd' = to_string_lossy(osCwd')
               /\ (\A i \in DOMAIN osCwd' : osCwd'[i] < 128) => cwd' = osCwd']_vars

C4_Witness ==
    /\ last.op = "exec"
    /\ last.cmd = "cd"
    /\ last.args = <<Lnk>>
    /\ last.res = "Ok"
    /\ osCwd = RawDir
    /\ cwd = <<47, REPLACEMENT>>

\* C5: exec("cd", []) returns CommandEmpty and changes nothing: not the
\* tracked directory, the OS directory, the history or the configuration,
\* and no process is spawned.
C5_CdWithoutArgs ==
    [][(Did("exec") /\ last'.cmd = "cd" /\ last'.args = <<>>)
          => /\ last'.res = "CommandEmpty"
             /\ last'.spawned = <<>>
             /\ UNCHANGED <<status, cwd, osCwd, header, history, plugins,
                            hooks, mapped, running, dropq>>]_vars

C5_Witness ==
    /\ last.op = "exec"
    /\ last.cmd = "cd"
    /\ last.args = <<>>
    /\ last.res = "CommandEmpty"
    /\ history # <<>>
    /\ Registered # {}
    /\ cwd # Root

\* What set_cwd(path) can return and do from the current state.
SameAsSetCwd(path) ==
    \E gc \in BOOLEAN :
        /\ last'.res = set_cwd(path, gc).res
        /\ cwd' = set_cwd(path, gc).cwd
        /\ osCwd' = set_cwd(path, gc).osCwd

\* C6 as stated: exec("cd", [a]) returns what set_cwd(a) returns and has its
\* effect, spawning nothing; with any other number of arguments the
\* directory does not change.
C6_CdExactlyOneArg ==
    [][(Did("exec") /\ last'.cmd = "cd")
          => /\ last'.spawned = <<>>
             /\ IF Len(last'.args) = 1
                THEN SameAsSetCwd(last'.args[1])
                ELSE cwd' = cwd /\ osCwd' = osCwd]_vars

\* C6 amended: exec("cd", args) with at least one argument returns what
\* set_cwd(args[0]) returns and has its effect, ignoring the other arguments
\* and spawning nothing; with no argument the directory does not change.
C6_CdFirstArg ==
    [][(Did("exec") /\ last'.cmd = "cd")
          => /\ last'.spawned = <<>>
             /\ IF Len(last'.args) >= 1
                THEN SameAsSetCwd(last'.args[1])
                ELSE cwd' = cwd /\ osCwd' = osCwd]_vars

C6_Witness ==
    /\ last.op = "exec"
    /\ last.cmd = "cd"
    /\ last.args = <<Tmp, Nx>>
    /\ last.res = "Ok"
    /\ cwd = Tmp

\* C7: exec of a command other than "cd" spawns at most one process, with
\* the arguments verbatim, and waits for it; a missing executable is
\* InvalidCmd carrying the command, any other spawn or wait failure is the
\* wrapped OS error; the tracked directory, the history and the registry
\* are unchanged.
C7_ExecExternal ==
    [][(Did("exec") /\ last'.cmd # "cd")
          => /\ last'.res \in {"Ok", "InvalidCmd", "Io"}
             /\ (last'.cmd \notin Executables) <=> (last'.res = "InvalidCmd")
             /\ last'.res = "InvalidCmd"
                  => last'.payload = last'.cmd /\ last'.spawned = <<>>
             /\ last'.res = "Ok" => Len(last'.spawned) = 1
             /\ \A i \in DOMAIN last'.spawned :
                  last'.spawned[i] = [cmd |-> last'.cmd, args |-> last'.args,
                                      waits |-> 1]
             /\ Len(last'.spawned) <= 1
             /\ UNCHANGED <<cwd, osCwd, history, plugins, hooks, mapped>>]_vars

C7_Witness ==
    /\ last.op = "exec"
    /\ last.cmd = "nope"
    /\ last.res = "InvalidCmd"
    /\ last.payload = "nope"
    /\ history # <<>>
    /\ Registered # {}

\* C8 as stated: whatever the header function returns, the output of
\* get_header ends with exactly one terminal-reset sequence.
C8_ExactlyOneReset ==
    last.op = "get_header" => TrailingResets(last.out) = 1

\* C8 amended: the output of get_header is the header function's string
\* followed by one terminal-reset sequence, so it always ends with the
\* sequence, and ends with exactly one when the header function's own string
\* does not end with one.
C8_OneResetAppended ==
    last.op = "get_header"
        => /\ last.out = HeaderFn(header) \o RESET
           /\ EndsWith(last.out, RESET)
           /\ TrailingResets(last.out) = 1 + TrailingResets(HeaderFn(header))

C8_Witness ==
    /\ last.op = "get_header"
    /\ header = "reset"
    /\ TrailingResets(last.out) = 2

\* C9: the registry is a map with unique keys: a lookup returns the hook
\* most recently loaded under the name (a later load of the name replaces
\* the entry and no other) and InvalidPlugin when none was, and plugin_names
\* yields exactly the loaded names, each once.
C9_RegistryIsMap ==
    /\ status = "up" =>
         /\ \A n \in Names :
              plugin_lookup(n) =
                  IF LoadedAs(n) # {}
                  THEN [res |-> "Ok", hook |-> MostRecent(n)]
                  ELSE [res |-> "InvalidPlugin", hook |-> NoHook]
         /\ plugin_names = {n \in Names : LoadedAs(n) # {}}
    /\ last.op = "plugin_lookup" =>
         /\ last.res = plugin_lookup(last.cmd).res
         /\ last.hook = plugin_lookup(last.cmd).hook
         /\ last.res = "InvalidPlugin" <=> LoadedAs(last.cmd) = {}
    /\ last.op = "plugin_names" =>
         /\ {last.names[i] : i \in DOMAIN last.names}
              = {n \in Names : LoadedAs(n) # {}}
         /\ \A i, j \in DOMAIN last.names :
              last.names[i] = last.names[j] => i = j

C9_Witness ==
    /\ last.op = "plugin_lookup"
    /\ last.cmd = "p"
    /\ last.res = "Ok"
    /\ last.hook = 2
    /\ hooks[1].name = "p"
    /\ hooks[1].via = "load"

\* C10: a successful load calls the entry symbol once and adds one hook to
\* the registry; a failed load calls it never, leaves the registry as it
\* was, and leaves no module mapped that no hook owns.
C10_LoadAllOrNothing ==
    [][/\ Did("load_plugin")
            => IF last'.res = "Ok"
               THEN /\ last'.inits = 1
                    /\ Len(hooks') = Len(hooks) + 1
                    /\ Registered' \ Registered = {Len(hooks')}
                    /\ ModuleKind(last'.cmd) = "plugin"
               ELSE /\ last'.inits = 0
                    /\ ModuleKind(last'.cmd) # "plugin"
                    /\ UNCHANGED <<plugins, hooks, mapped, dropq>>
       /\ MappedOwned']_vars

C10_Witness ==
    /\ last.op = "load_plugin"
    /\ last.cmd = "nosym.so"
    /\ last.res = "LibErr"
    /\ Registered # {}
    /\ mapped["nosym.so"] = 0
====
